---- MODULE Spec2Model ----
(***************************************************************************)
(* Inventory transaction ledger of ChocoDealersBot.                        *)
(*                                                                         *)
(* The model follows bot/handlers/inventory.py (confirm_action) running    *)
(* inside the session context manager of database/db.py (get_db) against   *)
(* the inventory_products and transaction_logs tables declared in          *)
(* database/models.py and alembic/versions/001_initial_schema.py.          *)
(*                                                                         *)
(* Each database session is a process.  A session's uncommitted work (the  *)
(* TransactionLog added to the session, the InventoryProduct it loaded or  *)
(* created) is private until the flush at commit; SELECT ... FOR UPDATE    *)
(* takes the row locks of the rows it returns and, under PostgreSQL's      *)
(* READ COMMITTED isolation, returns their latest committed version.       *)
(*                                                                         *)
(* ConvertSpec examines one call of convert_to_grams                       *)
(* (bot/utils/unit_conversion.py) for every typed quantity; FlowSpec is    *)
(* one user talking to the add, consume and correction ConversationHandlers*)
(* of bot/handlers/inventory.py, whose Confirm button runs confirm_action. *)
(*                                                                         *)
(* The specifications at the end widen FlowSpec by one thing each: TapSpec *)
(* by a Confirm button pressed twice, CallbackSpec by callback data chosen *)
(* by the client, CatalogSpec by an edit of the catalog, SharedSpec by the *)
(* shared account of bot/utils/staff_auth.py.  AppSpec dispatches updates  *)
(* in the handler order of bot/main.py, and SaleSpec runs sale_command     *)
(* (bot/handlers/commands.py) and sync_sales_from_square                   *)
(* (integrations/square_api.py) next to confirm_action.                    *)
(***************************************************************************)
EXTENDS Integers, Sequences, FiniteSets, Bags, TLC

\* ---------------------------------------------------------------- bounds
NumSessions == 2        \* concurrent confirm_action calls
NumProducts == 2        \* catalog items
MaxGrams    == 2        \* largest canonical quantity of one operation
MaxCommits  == 2        \* confirm_action calls in one behaviour
MaxFlows    == 2        \* entry commands the user sends in one behaviour
MaxMenus    == 2        \* menu messages the chat shows at a time
MaxOperations == 3      \* stock-changing operations in one behaviour

Sessions == 1..NumSessions
Products == 1..NumProducts

\* scripts/seed_data.py creates the seeded products together with an empty
\* inventory row (quantity=0); a product added to the catalog later has no
\* inventory_products row until its first ADD or CORRECTION.  The last
\* product of the catalog is such a later product, the others are seeded.
SeededProducts == {i \in Products : i < NumProducts}

\* context.user_data["action_type"] values written by category_selected
ActionNames == {"add", "consume", "correct"}

\* action_type_map of confirm_action; .get(action, ADD) defaults to ADD
action_type_map(action) ==
    CASE action = "add"     -> "ADD"
      [] action = "consume" -> "CONSUME"
      [] action = "correct" -> "CORRECTION"
      [] OTHER              -> "ADD"

\* The result of scalar_one_or_none() when no row matches
None == [found |-> FALSE, quantity |-> 0]

VARIABLES
    inventory_products,   \* [Products -> Seq(Int)]: committed rows, by product_id
    transaction_logs,     \* Seq of committed TransactionLog rows
    row_lock,             \* [Products -> SUBSET Sessions]: sessions whose transaction
                          \*  holds the FOR UPDATE lock of the product's rows
    pc,                   \* [Sessions -> position inside confirm_action / get_db]
    transaction_action,   \* [Sessions -> "ADD" | "CONSUME" | "CORRECTION"]
    product_id,           \* [Sessions -> Products]
    quantity_grams,       \* [Sessions -> Int]
    quantity_display,     \* [Sessions -> the display label of the quantity]
    product_name,         \* [Sessions -> the product name the handler read from
                          \*  user_data["product_info"]]
    inventory,            \* [Sessions -> the InventoryProduct object of the session]
    session_new,          \* [Sessions -> BOOLEAN]: db.add(inventory) pending INSERT
    outcome,              \* [Sessions -> the rejection or the exception the running
                          \*  handler reports to the user, "none" so far]
    started,              \* number of confirm_action calls so far
    value,                \* convert_to_grams argument: the parsed number, in
                          \*  units of 1/Den
    unit,                 \* convert_to_grams argument: the unit token as typed
    product_info,         \* convert_to_grams argument: the product's metadata
    converted,            \* <<>> before the call, <<the returned tuple>> after
    conv_state,           \* [conversation handler -> its state for the user]
    keyboards,            \* the bag of inline keyboards that messages of the
                          \*  chat carry
    user_data,            \* context.user_data of the user
    user_info,            \* the Telegram account of the user: whether it is an
                          \*  admin and whether it is an individual or the
                          \*  shared account
    flows_started,        \* number of entry commands handled so far
    products,             \* [Products -> the name column of the products row]
    second_tap            \* <<>>, or <<kb>> while a second callback query of
                          \*  the Confirm button of prompt kb waits to be handled

vars == <<inventory_products, transaction_logs, row_lock, pc, transaction_action,
          product_id, quantity_grams, quantity_display, product_name, inventory,
          session_new, outcome, started, value, unit, product_info, converted,
          conv_state, keyboards, user_data, user_info, flows_started, products,
          second_tap>>

\* The conversations of the user with the bot
conversation == <<conv_state, keyboards, user_data, user_info, flows_started,
                  second_tap>>

\* The call of convert_to_grams under examination
conversion == <<value, unit, product_info, converted>>

locals == <<transaction_action, product_id, quantity_grams, quantity_display,
            product_name>>
session_objects == <<inventory, session_new>>

\* The two tables and the handlers working on them
ledger == <<inventory_products, transaction_logs, row_lock, pc, locals,
            session_objects, outcome, started>>

\* ------------------------------------------------------------ the tables
\* CheckConstraint("quantity >= 0", name="positive_quantity")
positive_quantity(quantity) == quantity >= 0

\* The display string "<amount><unit> (<n><label>, ...)": the amount, the
\* unit written after it and the quantities in parentheses, each n a count
\* of 1/Den
Display(amount, unit_label, paren) ==
    [amount |-> amount, unit |-> unit_label, paren |-> paren]
Shown(n, label) == [n |-> n, label |-> label]

\* The TransactionLog object confirm_action builds and adds to the session
TransactionLog(p) ==
    [product_id     |-> product_id[p],
     action_type    |-> transaction_action[p],
     quantity_grams |-> quantity_grams[p],
     quantity_display |-> quantity_display[p],
     product_name   |-> product_name[p],
     admin_flag     |-> user_info.is_admin]

\* A session that never adds its TransactionLog
pending_logs_none(p) == <<>>

\* Objects added to the session with db.add(transaction_log), flushed by
\* the next session.commit()
pending_logs(p) == <<TransactionLog(p)>>

\* A plain SELECT, which waits for no lock
select_unlocked(p, pid) == TRUE

\* A SELECT that locks the whole table instead of the rows it matches
select_table_lock(p, pid) == \A i \in Products : row_lock[i] \subseteq {p}

\* with_for_update(): the SELECT waits while another session holds the lock
\* of a row it matches; a SELECT that matches no row waits for nothing.
with_for_update(p, pid) ==
    \/ inventory_products[pid] = <<>>
    \/ row_lock[pid] \subseteq {p}

\* confirm_action, lines 414-423: ADD creates the inventory when the SELECT
\* found none, and adds to the loaded quantity otherwise.
add_branch(inv, grams) ==
    IF ~inv.found
    THEN [next |-> "commit", new |-> TRUE,
          inventory |-> [found |-> TRUE, quantity |-> grams]]
    ELSE [next |-> "commit", new |-> FALSE,
          inventory |-> [inv EXCEPT !.quantity = @ + grams]]

\* A CONSUME that subtracts without comparing the stock to the request
consume_unchecked(inv, grams) ==
    IF ~inv.found
    THEN [next |-> "no_stock", new |-> FALSE, inventory |-> inv]
    ELSE [next |-> "commit", new |-> FALSE,
          inventory |-> [inv EXCEPT !.quantity = @ - grams]]

\* A CONSUME that reports success and leaves the quantity as it was
consume_keeps_stock(inv, grams) ==
    IF ~inv.found
    THEN [next |-> "no_stock", new |-> FALSE, inventory |-> inv]
    ELSE IF inv.quantity < grams
    THEN [next |-> "insufficient", new |-> FALSE, inventory |-> inv]
    ELSE [next |-> "commit", new |-> FALSE, inventory |-> inv]

\* A CONSUME that also rejects a request for the whole stock
consume_rejects_equal(inv, grams) ==
    IF ~inv.found
    THEN [next |-> "no_stock", new |-> FALSE, inventory |-> inv]
    ELSE IF inv.quantity <= grams
    THEN [next |-> "insufficient", new |-> FALSE, inventory |-> inv]
    ELSE [next |-> "commit", new |-> FALSE,
          inventory |-> [inv EXCEPT !.quantity = @ - grams]]

\* confirm_action, lines 425-446: CONSUME needs an inventory with at least
\* the requested quantity; both rejections return without touching it.
consume_branch(inv, grams) ==
    IF ~inv.found
    THEN [next |-> "no_stock", new |-> FALSE, inventory |-> inv]
    ELSE IF inv.quantity < grams
    THEN [next |-> "insufficient", new |-> FALSE, inventory |-> inv]
    ELSE [next |-> "commit", new |-> FALSE,
          inventory |-> [inv EXCEPT !.quantity = @ - grams]]

\* A CORRECTION that adds the counted value to the loaded quantity
correction_delta(inv, grams) ==
    IF ~inv.found
    THEN [next |-> "commit", new |-> TRUE,
          inventory |-> [found |-> TRUE, quantity |-> grams]]
    ELSE [next |-> "commit", new |-> FALSE,
          inventory |-> [inv EXCEPT !.quantity = @ + grams]]

\* confirm_action, lines 448-457: CORRECTION creates the inventory with the
\* counted value, or sets the loaded quantity to it.
correction_branch(inv, grams) ==
    IF ~inv.found
    THEN [next |-> "commit", new |-> TRUE,
          inventory |-> [found |-> TRUE, quantity |-> grams]]
    ELSE [next |-> "commit", new |-> FALSE,
          inventory |-> [inv EXCEPT !.quantity = grams]]

\* confirm_action, lines 413-459: the branch on transaction_action, applied
\* to the object the SELECT returned.
apply_action(ta, inv, grams) ==
    CASE ta = "ADD"        -> add_branch(inv, grams)
      [] ta = "CONSUME"    -> consume_branch(inv, grams)
      [] ta = "CORRECTION" -> correction_branch(inv, grams)

\* What the flush of the session writes to inventory_products[pid]:
\* an INSERT for a new object, an UPDATE of the loaded row otherwise.
flush_inventory(rows, inv, new) ==
    IF new THEN Append(rows, inv.quantity)
    ELSE [rows EXCEPT ![1] = inv.quantity]

\* A flush that rewrites the table with the session's pending records
flush_logs_replace(logs, pending) == pending

\* The flush of pending TransactionLog objects: one INSERT for each, after
\* the rows the table already holds.  No code path of the repository issues
\* an UPDATE or a DELETE on transaction_logs.
flush_logs(logs, pending) == logs \o pending

\* confirm_action returns (line 488 or the returns at 434 and 444) after
\* session.close(): its local variables and the session's objects are gone.
handler_returns(p) ==
    /\ pc' = [pc EXCEPT ![p] = "idle"]
    /\ transaction_action' = [transaction_action EXCEPT ![p] = "ADD"]
    /\ product_id' = [product_id EXCEPT ![p] = 1]
    /\ quantity_grams' = [quantity_grams EXCEPT ![p] = 1]
    /\ quantity_display' = [quantity_display EXCEPT ![p] = Display(1, "g", <<>>)]
    /\ product_name' = [product_name EXCEPT ![p] = "unset"]
    /\ inventory' = [inventory EXCEPT ![p] = None]
    /\ session_new' = [session_new EXCEPT ![p] = FALSE]
    /\ outcome' = [outcome EXCEPT ![p] = "none"]

\* A transaction end that leaves the locks of the session in place
release_none(p) == row_lock

\* Ending the database transaction (COMMIT or ROLLBACK) releases its locks
release(p) == [i \in Products |-> row_lock[i] \ {p}]

\* ------------------------------------------------------- unit conversion
\* bot/utils/unit_conversion.py.  The parsed number is a Python float; the
\* model holds it as a count of 1/Den.  Den is a power of two, so the floats
\* of the model's inputs and every product below are exact, and Python's
\* arithmetic on them is the integer arithmetic written here.
Den == 4

\* Largest number a user types, and the numbers typed (all positive:
\* quantity_entered rejects value <= 0 before it converts)
MaxValue == 5
Values == 1..(MaxValue * Den)

\* int(x) for x = n / d >= 0: truncation
int(n, d) == n \div d

\* Python's truth value of a metadata column: None (held as 0) and 0 are false
truthy(x) == x # 0

\* A table in which a liter counts as one gram
WEIGHT_CONVERSIONS_liter_as_gram ==
    [u \in {"g", "gram", "grams", "ml", "milliliter", "milliliters",
            "l", "liter", "liters"} |-> 1]
    @@ [u \in {"kg", "kilogram", "kilograms"} |-> 1000]

\* WEIGHT_CONVERSIONS, lines 17-53 (the Latin spellings; the Russian
\* spellings of the four units carry the same factors)
WEIGHT_CONVERSIONS ==
    [u \in {"g", "gram", "grams", "ml", "milliliter", "milliliters"} |-> 1]
    @@ [u \in {"kg", "kilogram", "kilograms", "l", "liter", "liters"} |-> 1000]

piece_units == {"piece", "pieces", "pc", "pcs"}
package_units == {"box", "boxes"}
pack_units == {"pack", "packs"}
package_units_all == package_units \cup pack_units

\* Unit tokens a user types: every spelling of the tables, two spellings
\* that differ from a table entry by case only, and two that are in no table
Units ==
    DOMAIN WEIGHT_CONVERSIONS \cup piece_units \cup package_units_all
    \cup {"KG", "Pcs"} \cup {"xyz", "bottle"}

\* unit.lower().strip() on the tokens of Units
unit_lower(u) ==
    CASE u = "KG"  -> "kg"
      [] u = "Pcs" -> "pcs"
      [] OTHER     -> u

\* The metadata of a product as product_selected stores it: grammovka and
\* quantity_per_package are nullable Integer columns
ProductInfos == [grammovka : {0, 25, 100}, quantity_per_package : {0, 2}]

\* A piece conversion that rounds to the nearest gram, as round() does
\* (halves to the even neighbour)
round(n, d) ==
    LET q == n \div d
        r == n % d
    IN  IF 2 * r < d THEN q
        ELSE IF 2 * r > d THEN q + 1
        ELSE IF q % 2 = 0 THEN q ELSE q + 1

\* convert_to_grams, lines 87-100: a unit of the weight table
weight_case(v, unit_l) ==
    LET multiplier == WEIGHT_CONVERSIONS[unit_l]
        grams == int(v * multiplier, Den)
    IN  [grams |-> grams,
         display |->
            IF unit_l \in {"kg", "kilogram", "kilograms"}
            THEN Display(grams, "g", <<Shown(v, "kg")>>)
            ELSE IF unit_l \in {"l", "liter", "liters"}
            THEN Display(grams, "g", <<Shown(v, "L")>>)
            ELSE Display(grams, "g", <<>>),
         warning |-> FALSE]

\* convert_to_grams, lines 102-113: a piece unit
piece_case(v, info) ==
    IF truthy(info.grammovka)
    THEN LET grams == int(v * info.grammovka, Den)
         IN  [grams |-> grams,
              display |-> Display(grams, "g", <<Shown(int(v, Den) * Den, " pieces")>>),
              warning |-> FALSE]
    ELSE [grams |-> int(v, Den),
          display |-> Display(int(v, Den), " pieces", <<>>),
          warning |-> FALSE]

\* convert_to_grams, lines 115-137: a box or pack unit
package_case(v, info) ==
    IF truthy(info.quantity_per_package)
    THEN LET total_pieces == int(v * info.quantity_per_package, Den)
         IN  IF truthy(info.grammovka)
             THEN [grams |-> total_pieces * info.grammovka,
                   display |-> Display(total_pieces * info.grammovka, "g",
                                       <<Shown(int(v, Den) * Den, " packages"),
                                         Shown(total_pieces * Den, " pieces")>>),
                   warning |-> FALSE]
             ELSE [grams |-> total_pieces,
                   display |-> Display(total_pieces, " pieces",
                                       <<Shown(int(v, Den) * Den, " packages")>>),
                   warning |-> FALSE]
    ELSE [grams |-> int(v, Den),
          display |-> Display(int(v, Den), " packages", <<>>),
          warning |-> FALSE]

\* An unknown unit taken for grams without a word
unknown_as_grams(v, u) ==
    [grams |-> int(v, Den),
     display |-> Display(int(v, Den), "g", <<>>),
     warning |-> FALSE]

\* convert_to_grams, lines 139-142: a unit of no table; `warning` is the
\* line printed at 141
unknown_case(v, u) ==
    [grams |-> int(v, Den),
     display |-> Display(int(v, Den), u, <<>>),
     warning |-> TRUE]

\* convert_to_grams, lines 85-142: the first table that holds the lower-case
\* unit decides
convert_to_grams(v, u, info) ==
    LET unit_l == unit_lower(u)
    IN  IF unit_l \in DOMAIN WEIGHT_CONVERSIONS THEN weight_case(v, unit_l)
        ELSE IF unit_l \in piece_units THEN piece_case(v, info)
        ELSE IF unit_l \in package_units_all THEN package_case(v, info)
        ELSE unknown_case(v, u)

\* quantity_entered, lines 303-351: the conversion inside its try block, the
\* values stored for the commit and the state the handler returns.  None of
\* the operations of convert_to_grams raises on a number, a string and a
\* dict of integer columns, so the except branch (lines 307-314) is not taken.
convert_and_store(v, u, info) ==
    LET r == convert_to_grams(v, u, info)
    IN  [quantity_original |-> v,
         quantity_unit     |-> u,
         quantity_grams    |-> r.grams,
         quantity_display  |-> r.display,
         warning           |-> r.warning,
         returns           |-> "CONFIRM_ACTION"]

\* Texts a user types when asked for the quantity
Texts == {"1 g", "0.5 g", "1 xyz", "0 g", "-1 g", "one"}

\* parse_quantity_input, lines 186-231, on the texts of Texts: the number
\* before the blank as a float (in units of 1/Den) and the rest as the unit;
\* (None, None), held as is_none, for a text that holds no number
parse_quantity_input(text) ==
    CASE text = "1 g"   -> [is_none |-> FALSE, value |-> 1 * Den, unit |-> "g"]
      [] text = "0.5 g" -> [is_none |-> FALSE, value |-> Den \div 2, unit |-> "g"]
      [] text = "1 xyz" -> [is_none |-> FALSE, value |-> 1 * Den, unit |-> "xyz"]
      [] text = "0 g"   -> [is_none |-> FALSE, value |-> 0, unit |-> "g"]
      [] text = "-1 g"  -> [is_none |-> FALSE, value |-> (-1) * Den, unit |-> "g"]
      [] text = "one"   -> [is_none |-> TRUE, value |-> 0, unit |-> "g"]

\* --------------------------------------------------------- conversations
\* The three ConversationHandlers of bot/handlers/inventory.py, in the order
\* main() adds them to the application (bot/main.py, lines 469-471)
Flows == <<"add_inventory", "consume_inventory", "correction">>
FlowNames == {Flows[k] : k \in 1..Len(Flows)}

\* The action each entry point passes to show_category_selection
entry_action(f) ==
    CASE f = "add_inventory"     -> "add"
      [] f = "consume_inventory" -> "consume"
      [] f = "correction"        -> "correct"

ConvStates == {"END", "SELECT_CATEGORY", "SELECT_PRODUCT", "ENTER_QUANTITY",
               "CONFIRM_ACTION"}

\* Inline keyboards: the category buttons inv_<action>_cat:<category> of
\* show_category_selection and the product buttons inv_<action>_prod:<id> of
\* category_selected; each of them also carries the Cancel button inv_cancel
Keyboard(kind, action) ==
    [kind |-> kind, action |-> action, product |-> 0, grams |-> 0]

\* The confirmation prompt of quantity_entered, lines 322-349: the message
\* names the action, the product and the quantity and carries the buttons
\* inv_confirm and inv_cancel
Prompt(action, product, grams) ==
    [kind |-> "confirm", action |-> action, product |-> product, grams |-> grams]

\* The catalog: the seeded products are chocolate with a grammovka and no
\* quantity_per_package (scripts/seed_data.py); the product added later is
\* counted in pieces and comes in packages
Catalog ==
    [i \in Products |->
        IF i \in SeededProducts
        THEN [grammovka |-> 25, quantity_per_package |-> 0]
        ELSE [grammovka |-> 0, quantity_per_package |-> 2]]

\* The name a product is seeded with, and the name an edit of the products
\* row gives it
seeded_name == "Dark 70"
edited_name == "Dark 72"

\* The active products of a category: all of the catalog is chocolate
Categories == {"OUR_CHOCOLATE", "PRINTING_MATERIALS"}
category_products(c) == IF c = "OUR_CHOCOLATE" THEN Products ELSE {}

\* context.user_data before any handler has stored a key
user_data_empty ==
    [action_type         |-> "unset",
     selected_product_id |-> 0,
     product_info        |-> [name |-> "unset", grammovka |-> 0,
                              quantity_per_package |-> 0],
     selected_staff_name |-> "unset",
     quantity_original   |-> 0,
     quantity_unit       |-> "unset",
     quantity_grams      |-> 0,
     quantity_display    |-> Display(0, "unset", <<>>)]

\* Application.process_update offers an update to the handlers of a group in
\* the order they were added and the first whose check_update accepts it
\* handles it.  A ConversationHandler accepts an update that a handler of
\* its current state or a fallback matches: `states` are the states with
\* such a handler.
receiver(states) ==
    IF \E k \in 1..Len(Flows) : conv_state[Flows[k]] \in states
    THEN Flows[CHOOSE k \in 1..Len(Flows) :
                  /\ conv_state[Flows[k]] \in states
                  /\ \A j \in 1..(k - 1) : conv_state[Flows[j]] \notin states]
    ELSE "none"

\* A message gets the keyboard / the keyboard of a message is replaced
\* (edit_message_text)
show(kbs, kb) == kbs (+) SetToBag({kb})
remove(kbs, kb) == kbs (-) SetToBag({kb})

\* staff_auth.get_user_info, lines 159-193: the info of an individual
\* account, or of the staff name selected on the shared account; None
\* (found FALSE) on the shared account while no name is selected
get_user_info(ud) ==
    IF user_info.auth_mode = "individual"
    THEN [found |-> TRUE, user_name |-> "account", is_admin |-> user_info.is_admin]
    ELSE IF ud.selected_staff_name # "unset"
    THEN [found |-> TRUE, user_name |-> ud.selected_staff_name, is_admin |-> FALSE]
    ELSE [found |-> FALSE, user_name |-> "unset", is_admin |-> FALSE]

\* staff_auth.clear_staff_selection, lines 233-241
clear_staff_selection(ud) == [ud EXCEPT !.selected_staff_name = "unset"]

\* STAFF_NAMES, staff_auth.py line 44
STAFF_NAMES == {"Thei", "Nu", "Choco"}

\* ------------------------------------------------------------------ Init
\* The database after scripts/seed_data.py, and no handler running
ledger_init ==
    /\ inventory_products = [i \in Products |->
                               IF i \in SeededProducts THEN <<0>> ELSE <<>>]
    /\ transaction_logs = <<>>
    /\ row_lock = [i \in Products |-> {}]
    /\ pc = [p \in Sessions |-> "idle"]
    /\ transaction_action = [p \in Sessions |-> "ADD"]
    /\ product_id = [p \in Sessions |-> 1]
    /\ quantity_grams = [p \in Sessions |-> 1]
    /\ quantity_display = [p \in Sessions |-> Display(1, "g", <<>>)]
    /\ product_name = [p \in Sessions |-> "unset"]
    /\ products = [i \in Products |-> seeded_name]
    /\ inventory = [p \in Sessions |-> None]
    /\ session_new = [p \in Sessions |-> FALSE]
    /\ outcome = [p \in Sessions |-> "none"]
    /\ started = 0

\* No call of convert_to_grams is being examined
conversion_none ==
    /\ value = Den
    /\ unit = "g"
    /\ product_info = [grammovka |-> 0, quantity_per_package |-> 0]
    /\ converted = <<>>

\* No conversation has been started and no callback query waits
conversation_none ==
    /\ conv_state = [f \in FlowNames |-> "END"]
    /\ keyboards = EmptyBag
    /\ user_data = user_data_empty
    /\ flows_started = 0
    /\ second_tap = <<>>

\* An account of INDIVIDUAL_STAFF_ACCOUNTS (Mode A), in ADMIN_USER_IDS or not
individual(admin) == [is_admin |-> admin, auth_mode |-> "individual"]

\* An account in neither list: the shared account of Mode B
shared == [is_admin |-> FALSE, auth_mode |-> "shared"]

\* The user is a staff member with an account of their own and no admin
\* rights
Init ==
    /\ ledger_init /\ conversion_none /\ conversation_none
    /\ user_info = individual(FALSE)

\* --------------------------------------------------------------- actions
\* confirm_action, lines 367-402: read the stored data of the conversation,
\* map the action, open the session and db.add(transaction_log).
start_transaction(p, action, pid, name, grams, display) ==
    /\ pc[p] = "idle"
    /\ product_name' = [product_name EXCEPT ![p] = name]
    /\ transaction_action' = [transaction_action EXCEPT ![p] = action_type_map(action)]
    /\ product_id' = [product_id EXCEPT ![p] = pid]
    /\ quantity_grams' = [quantity_grams EXCEPT ![p] = grams]
    /\ quantity_display' = [quantity_display EXCEPT ![p] = display]
    /\ pc' = [pc EXCEPT ![p] = "select"]
    /\ started' = started + 1
    /\ UNCHANGED <<inventory_products, transaction_logs, row_lock, session_objects, outcome>>
    /\ UNCHANGED <<conversion, products>>

\* confirm_action called with stored data of any action and product and a
\* canonical quantity in grams out of `quantities`
begin_commit(p, quantities) ==
    /\ started < MaxCommits
    /\ \E action \in ActionNames, pid \in Products, grams \in quantities :
         start_transaction(p, action, pid, products[pid], grams,
                           Display(grams, "g", <<>>))
    /\ UNCHANGED conversation

confirm_action(p) == begin_commit(p, 1..MaxGrams)

\* confirm_action, lines 404-459: SELECT ... FOR UPDATE, scalar_one_or_none()
\* and the branch on the transaction type.  The two CONSUME rejections send
\* their message and return from inside the `async with get_db()` block.
select_inventory(p) ==
    LET pid  == product_id[p]
        rows == inventory_products[pid]
    IN  /\ pc[p] = "select"
        /\ with_for_update(p, pid)
        /\ row_lock' = IF rows = <<>> THEN row_lock
                        ELSE [row_lock EXCEPT ![pid] = @ \cup {p}]
        /\ IF Len(rows) > 1
           THEN \* MultipleResultsFound
                /\ pc' = [pc EXCEPT ![p] = "raise"]
                /\ outcome' = [outcome EXCEPT ![p] = "MultipleResultsFound"]
                /\ UNCHANGED <<inventory, session_new>>
           ELSE LET inv == IF rows = <<>> THEN None
                           ELSE [found |-> TRUE, quantity |-> rows[1]]
                    r   == apply_action(transaction_action[p], inv, quantity_grams[p])
                IN  /\ inventory' = [inventory EXCEPT ![p] = r.inventory]
                    /\ session_new' = [session_new EXCEPT ![p] = r.new]
                    /\ IF r.next = "commit"
                       THEN /\ pc' = [pc EXCEPT ![p] = "commit"]
                            /\ UNCHANGED outcome
                       ELSE /\ pc' = [pc EXCEPT ![p] = "return"]
                            /\ outcome' = [outcome EXCEPT ![p] = r.next]
        /\ UNCHANGED <<inventory_products, transaction_logs, locals, started, conversion, conversation, products>>

\* confirm_action, lines 461-479: await db.commit() flushes the log and the
\* inventory change in one database transaction, after which the handler
\* clears the staff selection of its user, reports success and returns; a
\* violated CHECK constraint raises and nothing is written.
db_commit(p) ==
    LET pid == product_id[p]
    IN  /\ pc[p] = "commit"
        /\ IF positive_quantity(inventory[p].quantity)
           THEN /\ inventory_products' =
                      [inventory_products EXCEPT
                         ![pid] = flush_inventory(@, inventory[p], session_new[p])]
                /\ transaction_logs' = flush_logs(transaction_logs, pending_logs(p))
                /\ row_lock' = release(p)
                /\ handler_returns(p)
                /\ user_data' = IF p = 1 THEN clear_staff_selection(user_data)
                                ELSE user_data
           ELSE /\ pc' = [pc EXCEPT ![p] = "raise"]
                /\ outcome' = [outcome EXCEPT ![p] = "IntegrityError"]
                /\ UNCHANGED <<inventory_products, transaction_logs, row_lock,
                               locals, session_objects, user_data>>
        /\ UNCHANGED <<started, conversion, products, conv_state, keyboards,
                       user_info, flows_started, second_tap>>

\* get_db, lines 78-79 and 84, after a `return` inside the with block: the
\* generator resumes after the yield, so session.commit() flushes whatever
\* the session still holds, then session.close() drops the session's objects.
get_db_exit(p) ==
    /\ pc[p] = "return"
    /\ transaction_logs' = flush_logs(transaction_logs, pending_logs(p))
    /\ row_lock' = release(p)
    /\ handler_returns(p)
    /\ UNCHANGED <<inventory_products, started, conversion, conversation, products>>

\* The persistent store fails under an awaited database call: db.execute,
\* db.commit or the session.commit() of get_db raises.
StoreUnavailable(p) ==
    /\ pc[p] \in {"select", "commit", "return"}
    /\ pc' = [pc EXCEPT ![p] = "raise"]
    /\ outcome' = [outcome EXCEPT ![p] = "StoreUnavailable"]
    /\ UNCHANGED <<inventory_products, transaction_logs, row_lock, locals,
                   inventory, session_new, started, conversion, conversation, products>>

\* get_db, lines 80-84, and the except clause of confirm_action (481-486):
\* session.rollback() discards the pending objects and releases the locks;
\* the handler then shows the exception (outcome) to the user.
get_db_rollback(p) ==
    /\ pc[p] = "raise"
    /\ row_lock' = release(p)
    /\ handler_returns(p)
    /\ UNCHANGED <<inventory_products, transaction_logs, started, conversion, conversation, products>>

\* quantity_entered converts the typed quantity under examination
call_convert_to_grams ==
    /\ converted = <<>>
    /\ converted' = <<convert_and_store(value, unit, product_info)>>
    /\ UNCHANGED <<inventory_products, transaction_logs, row_lock, pc, locals,
                   session_objects, outcome, started, value, unit, product_info,
                   conversation, products>>

\* --------------------------------------------------- conversation actions
\* The user's updates are handled one after the other (the Application is
\* built without concurrent_updates): an update is taken up when the handler
\* of the one before has returned.  The handlers of the user run in session 1.
handler_idle == pc[1] = "idle" /\ second_tap = <<>>

\* show_category_selection, lines 88-139: a new message with the category
\* buttons of `action`
show_category_selection(f, action) ==
    /\ conv_state' = [conv_state EXCEPT ![f] = "SELECT_CATEGORY"]
    /\ keyboards' = show(keyboards, Keyboard("category", action))

\* staff_auth.request_staff_selection, lines 115-134: a new message with
\* the staff name buttons; the entry point returns END
request_staff_selection ==
    /\ keyboards' = show(keyboards, Keyboard("staff", "none"))
    /\ UNCHANGED conv_state

\* An entry command reaches the entry point of conversation f when that
\* conversation is not running
entry_point(f) ==
    /\ handler_idle
    /\ flows_started < MaxFlows
    /\ conv_state[f] = "END"
    /\ flows_started' = flows_started + 1
    /\ UNCHANGED <<user_data, user_info>>
    /\ UNCHANGED ledger
    /\ UNCHANGED <<conversion, products, second_tap>>

\* /add_inventory: add_inventory_start, lines 66-85
add_inventory_start ==
    /\ entry_point("add_inventory")
    /\ IF get_user_info(user_data).found
       THEN show_category_selection("add_inventory", "add")
       ELSE request_staff_selection

\* /consume_inventory: consume_inventory_start, lines 503-516
consume_inventory_start ==
    /\ entry_point("consume_inventory")
    /\ IF get_user_info(user_data).found
       THEN show_category_selection("consume_inventory", "consume")
       ELSE request_staff_selection

\* /correction: correction_start, lines 523-545; requires_admin_check turns
\* everyone but an admin away
correction_start ==
    /\ entry_point("correction")
    /\ IF ~get_user_info(user_data).found
       THEN request_staff_selection
       ELSE IF get_user_info(user_data).is_admin
       THEN show_category_selection("correction", "correct")
       ELSE UNCHANGED <<conv_state, keyboards>>

\* category_selected, lines 142-205, for a callback query of the message
\* with keyboard kb whose data is inv_<action>_cat:<c>: the action is read
\* from the callback data
category_selected(kb, action, c) ==
    LET f == receiver({"SELECT_CATEGORY"})
    IN  /\ handler_idle
        /\ kb.kind = "category" /\ BagIn(kb, keyboards)
        /\ f # "none"
        /\ user_data' = [user_data EXCEPT !.action_type = action]
        /\ IF category_products(c) = {}
           THEN /\ conv_state' = [conv_state EXCEPT ![f] = "END"]
                /\ keyboards' = remove(keyboards, kb)
           ELSE /\ conv_state' = [conv_state EXCEPT ![f] = "SELECT_PRODUCT"]
                /\ keyboards' = show(remove(keyboards, kb),
                                     Keyboard("product", action))
        /\ UNCHANGED <<user_info, flows_started>>
        /\ UNCHANGED ledger
        /\ UNCHANGED <<conversion, products, second_tap>>

\* product_selected, lines 208-271, for a press of the button of product i
product_selected(kb, i) ==
    LET f == receiver({"SELECT_PRODUCT"})
    IN  /\ handler_idle
        /\ kb.kind = "product" /\ BagIn(kb, keyboards)
        /\ f # "none"
        /\ user_data' = [user_data EXCEPT !.selected_product_id = i,
                                          !.product_info =
                                              [name |-> products[i],
                                               grammovka |-> Catalog[i].grammovka,
                                               quantity_per_package |->
                                                   Catalog[i].quantity_per_package]]
        /\ conv_state' = [conv_state EXCEPT ![f] = "ENTER_QUANTITY"]
        /\ keyboards' = remove(keyboards, kb)
        /\ UNCHANGED <<user_info, flows_started>>
        /\ UNCHANGED ledger
        /\ UNCHANGED <<conversion, products, second_tap>>

\* A validation that lets the value 0 pass
negative_only(v) == v < 0

\* quantity_entered, line 293: the value is not positive
non_positive(v) == v <= 0

\* quantity_entered, lines 274-351, for a typed text: an unparsable text and
\* a value <= 0 get a reply and leave the conversation where it is
quantity_entered(text) ==
    LET f == receiver({"ENTER_QUANTITY"})
        parsed == parse_quantity_input(text)
    IN  /\ handler_idle
        /\ f # "none"
        /\ IF parsed.is_none \/ non_positive(parsed.value)
           THEN UNCHANGED <<user_data, conv_state, keyboards>>
           ELSE LET r == convert_and_store(parsed.value, parsed.unit,
                                           user_data.product_info)
                IN  /\ user_data' =
                          [user_data EXCEPT
                             !.quantity_original = r.quantity_original,
                             !.quantity_unit     = r.quantity_unit,
                             !.quantity_grams    = r.quantity_grams,
                             !.quantity_display  = r.quantity_display]
                    /\ conv_state' = [conv_state EXCEPT ![f] = r.returns]
                    /\ keyboards' = show(keyboards,
                                         Prompt(user_data.action_type,
                                                user_data.selected_product_id,
                                                r.quantity_grams))
        /\ UNCHANGED <<user_info, flows_started>>
        /\ UNCHANGED ledger
        /\ UNCHANGED <<conversion, products, second_tap>>

\* A press of Confirm on the prompt kb: confirm_action, lines 354-402, with
\* the data stored in user_data.  The handler returns END whatever happens in
\* the session and its last act edits the message of the button (lines 434,
\* 444, 478, 483); no other update of the user is handled before it has
\* returned.
\* Without user info (lines 360-365) the handler reports an authentication
\* error and returns END before it opens a session.
confirm_pressed(f) ==
    /\ pc[1] = "idle"
    /\ IF get_user_info(user_data).found
       THEN start_transaction(1, user_data.action_type,
                              user_data.selected_product_id,
                              user_data.product_info.name,
                              user_data.quantity_grams,
                              user_data.quantity_display)
       ELSE /\ UNCHANGED ledger
            /\ UNCHANGED <<conversion, products>>
    /\ conv_state' = [conv_state EXCEPT ![f] = "END"]
    /\ UNCHANGED <<user_data, user_info, flows_started>>

\* The Confirm button of prompt kb is pressed, once or (again) twice in a
\* row: the first callback query is handled now, the second waits
inv_confirm(kb, again) ==
    LET f == receiver({"CONFIRM_ACTION"})
    IN  /\ handler_idle
        /\ kb.kind = "confirm" /\ BagIn(kb, keyboards)
        /\ f # "none"
        /\ confirm_pressed(f)
        /\ keyboards' = remove(keyboards, kb)
        /\ second_tap' = IF again THEN <<kb>> ELSE <<>>

\* The second callback query of a Confirm button, taken up when the handler
\* of the first has returned: the conversation that handled the first is in
\* END by then, so the query goes to the next conversation that waits in
\* CONFIRM_ACTION, and to no handler when there is none
second_confirm ==
    LET f == receiver({"CONFIRM_ACTION"})
    IN  /\ pc[1] = "idle"
        /\ second_tap # <<>>
        /\ second_tap' = <<>>
        /\ IF f = "none"
           THEN /\ UNCHANGED ledger
                /\ UNCHANGED <<conversion, products>>
                /\ UNCHANGED <<conv_state, user_data, user_info, flows_started>>
           ELSE confirm_pressed(f)
        /\ UNCHANGED keyboards

\* A cancellation that goes on to commit what the conversation holds
cancel_commits(kb) ==
    LET f == receiver(ConvStates \ {"END"})
    IN  /\ BagIn(kb, keyboards)
        /\ f # "none"
        /\ start_transaction(1, user_data.action_type, 1, seeded_name, 1,
                             Display(1, "g", <<>>))
        /\ conv_state' = [conv_state EXCEPT ![f] = "END"]
        /\ keyboards' = remove(keyboards, kb)
        /\ UNCHANGED <<user_data, user_info, flows_started, second_tap>>

\* A press of Cancel on a keyboard kb: cancel_inventory_action, lines
\* 491-496, the fallback of a conversation in any of its states
cancel_inventory_action(kb) ==
    LET f == receiver(ConvStates \ {"END"})
    IN  /\ handler_idle
        /\ BagIn(kb, keyboards)
        /\ f # "none"
        /\ conv_state' = [conv_state EXCEPT ![f] = "END"]
        /\ keyboards' = remove(keyboards, kb)
        /\ UNCHANGED <<user_data, user_info, flows_started>>
        /\ UNCHANGED ledger
        /\ UNCHANGED <<conversion, products, second_tap>>

\* The /cancel command, the second fallback: cancel_inventory_action reads
\* update.callback_query, which is None for a message, and raises at line
\* 494; the conversation keeps its state
cancel_command ==
    /\ handler_idle
    /\ receiver(ConvStates \ {"END"}) # "none"
    /\ UNCHANGED vars

Next ==
    \E p \in Sessions :
        \/ confirm_action(p)
        \/ select_inventory(p)
        \/ db_commit(p)
        \/ get_db_exit(p)
        \/ StoreUnavailable(p)
        \/ get_db_rollback(p)

Spec == Init /\ [][Next]_vars

\* Every typed quantity (number, unit token) for every product metadata
ConvertInit ==
    /\ ledger_init /\ conversation_none
    /\ user_info = individual(FALSE)
    /\ value \in Values
    /\ unit \in Units
    /\ product_info \in ProductInfos
    /\ converted = <<>>

ConvertNext == call_convert_to_grams

ConvertSpec == ConvertInit /\ [][ConvertNext]_vars

\* One user, an admin or not, talking to the three conversations
FlowInit ==
    /\ ledger_init /\ conversion_none /\ conversation_none
    /\ user_info \in {individual(admin) : admin \in BOOLEAN}

FlowNext ==
    \/ add_inventory_start
    \/ consume_inventory_start
    \/ correction_start
    \/ \E kb \in BagToSet(keyboards), c \in Categories :
          category_selected(kb, kb.action, c)
    \/ \E kb \in BagToSet(keyboards), i \in Products : product_selected(kb, i)
    \/ \E text \in Texts : quantity_entered(text)
    \/ \E kb \in BagToSet(keyboards) : inv_confirm(kb, FALSE)
    \/ \E kb \in BagToSet(keyboards) : cancel_inventory_action(kb)
    \/ cancel_command
    \/ select_inventory(1)
    \/ db_commit(1)
    \/ get_db_exit(1)
    \/ StoreUnavailable(1)
    \/ get_db_rollback(1)

FlowSpec == FlowInit /\ [][FlowNext]_vars

TypeOK ==
    /\ \A i \in Products : \A k \in 1..Len(inventory_products[i]) :
          inventory_products[i][k] \in Int
    /\ pc \in [Sessions -> {"idle", "select", "commit", "return", "raise"}]
    /\ row_lock \in [Products -> SUBSET Sessions]
    /\ started \in Nat

\* ======================================================================
\* Properties
\* ======================================================================

\* The step by which session p leaves confirm_action
Ends(p) == pc[p] # "idle" /\ pc'[p] = "idle"

\* db.commit() of session p succeeds in this step
Commits(p) == pc[p] = "commit" /\ pc'[p] = "idle"

\* Every stored quantity of every inventory_products row is >= 0
NonNegativeStock ==
    \A i \in Products : \A k \in 1..Len(inventory_products[i]) :
        inventory_products[i][k] >= 0

\* The SELECT of a CONSUME returns a quantity smaller than the request
ConsumeExceeds(p) ==
    /\ pc[p] = "select"
    /\ transaction_action[p] = "CONSUME"
    /\ Len(inventory_products[product_id[p]]) = 1
    /\ inventory_products[product_id[p]][1] < quantity_grams[p]

\* C1: under every interleaving of ADD, CONSUME and CORRECTION commits every
\* stored stock quantity is >= 0; a CONSUME whose SELECT finds less than the
\* requested amount is rejected as insufficient (it never reaches db.commit);
\* until the rejected CONSUME has ended the quantity it read stays as it is,
\* and its own last step changes no inventory_products row.
C1_NonNegative ==
    /\ []NonNegativeStock
    /\ [][\A p \in Sessions :
            /\ (ConsumeExceeds(p) /\ pc'[p] # "select" /\ outcome'[p] # "StoreUnavailable")
                  => (pc'[p] = "return" /\ outcome'[p] = "insufficient")
            /\ (pc[p] = "return" /\ outcome[p] = "insufficient")
                  => /\ inventory_products'[product_id[p]][1]
                          = inventory_products[product_id[p]][1]
                     /\ pc'[p] # "return" => inventory_products' = inventory_products]_vars

\* Witness of C1: a CONSUME larger than a positive stock has been rejected
\* and the stock is still there
C1_Witness ==
    \E p \in Sessions :
        /\ pc[p] = "return"
        /\ outcome[p] = "insufficient"
        /\ inventory_products[product_id[p]] # <<>>
        /\ inventory_products[product_id[p]][1] > 0
        /\ inventory_products[product_id[p]][1] < quantity_grams[p]

\* C2: when a CONSUME is rejected as insufficient, the step that closes its
\* database session adds no transaction record and changes no stock quantity.
C2_RejectedLeavesNoRecord ==
    [][\A p \in Sessions :
         (pc[p] = "return" /\ outcome[p] = "insufficient" /\ Ends(p))
            => /\ transaction_logs' = transaction_logs
               /\ inventory_products' = inventory_products]_vars

\* C3: a successful db.commit() appends exactly the one TransactionLog of its
\* session, the transaction log never grows by more than one record in a
\* step, and inventory_products changes only in such a step and only for the
\* product of that record.
C3_OneRecordPerCommit ==
    [][/\ \A p \in Sessions :
            Commits(p) => transaction_logs' = Append(transaction_logs, TransactionLog(p))
       /\ inventory_products' # inventory_products =>
            \E p \in Sessions :
               /\ Commits(p)
               /\ \A i \in Products \ {product_id[p]} :
                     inventory_products'[i] = inventory_products[i]]_vars

\* Witness of C3: an ADD and then a CORRECTION of one product have been
\* committed, each with its record
C3_Witness ==
    /\ Len(transaction_logs) = 2
    /\ transaction_logs[1].action_type = "ADD"
    /\ transaction_logs[2].action_type = "CORRECTION"
    /\ transaction_logs[1].product_id = transaction_logs[2].product_id
    /\ inventory_products[transaction_logs[2].product_id]
          = <<transaction_logs[2].quantity_grams>>
    /\ \A p \in Sessions : pc[p] = "idle"

\* The half of C4 that the code keeps: a store failure and the rollback after
\* it change neither table, and every stock change comes with one new record
RollbackLeavesTablesUnchanged ==
    [][/\ \A p \in Sessions :
            ((pc[p] # "raise" /\ pc'[p] = "raise") \/ (pc[p] = "raise" /\ Ends(p)))
               => /\ inventory_products' = inventory_products
                  /\ transaction_logs' = transaction_logs
       /\ inventory_products' # inventory_products
            => Len(transaction_logs') = Len(transaction_logs) + 1]_vars

\* C4: a persistence failure changes neither table, the rollback that follows
\* it changes neither table, and no step leaves a partial commit: a stock
\* change comes with exactly one new record, and a new record comes only
\* with the commit of its stock change.
C4_NoPartialCommit ==
    [][/\ \A p \in Sessions :
            ((pc[p] # "raise" /\ pc'[p] = "raise") \/ (pc[p] = "raise" /\ Ends(p)))
               => /\ inventory_products' = inventory_products
                  /\ transaction_logs' = transaction_logs
       /\ inventory_products' # inventory_products
            => Len(transaction_logs') = Len(transaction_logs) + 1
       /\ transaction_logs' # transaction_logs
            => \E p \in Sessions : Commits(p)]_vars

\* C5: when every session has run one ADD(1) on a product that had no
\* inventory row and all of them have committed, the product has one row
\* and its quantity is the number of ADDs.
C5_ConcurrentAdds ==
    \A i \in Products \ SeededProducts :
        ( /\ \A p \in Sessions : pc[p] = "idle"
          /\ started = NumSessions
          /\ Len(transaction_logs) = NumSessions
          /\ \A k \in 1..Len(transaction_logs) :
                transaction_logs[k] =
                   [product_id |-> i, action_type |-> "ADD", quantity_grams |-> 1,
                    quantity_display |-> Display(1, "g", <<>>),
                    product_name |-> seeded_name, admin_flag |-> FALSE] )
        => inventory_products[i] = <<NumSessions>>

\* Session p has loaded an existing inventory row and not yet ended
Loaded(p) ==
    /\ pc[p] \in {"commit", "return"}
    /\ inventory[p].found
    /\ ~session_new[p]

\* C6: a session that loaded an existing inventory row is the only holder of
\* the product's row lock until it ends, and the result it is about to write
\* is its operation applied to the quantity that is committed now: no other
\* commit has changed the row since it was read.
C6_Serialized ==
    /\ \A i \in Products : Cardinality(row_lock[i]) <= 1
    /\ \A p \in Sessions :
          Loaded(p) =>
             /\ row_lock[product_id[p]] = {p}
             /\ inventory[p] =
                  apply_action(transaction_action[p],
                               [found |-> TRUE,
                                quantity |-> inventory_products[product_id[p]][1]],
                               quantity_grams[p]).inventory

\* Witness of C6: one session is about to commit a change of a row while
\* another session waits in its SELECT for the same product
C6_Witness ==
    \E p, q \in Sessions :
        /\ p # q
        /\ Loaded(p) /\ pc[p] = "commit"
        /\ inventory[p].quantity # inventory_products[product_id[p]][1]
        /\ pc[q] = "select" /\ product_id[q] = product_id[p]
        /\ ~ENABLED select_inventory(q)

\* C7: every product has at most one inventory_products row in every
\* reachable state, and no step removes a row.
C7_OneRowPerProduct ==
    /\ [](\A i \in Products : Len(inventory_products[i]) <= 1)
    /\ [][\A i \in Products :
            Len(inventory_products'[i]) >= Len(inventory_products[i])]_vars

\* C8: a session whose SELECT cannot proceed is waiting for a session that
\* holds the lock of the same product, never for one working on another
\* product; past its SELECT a session never waits.
C8_NoCrossBlocking ==
    \A p \in Sessions :
        /\ (pc[p] = "select" /\ ~ENABLED select_inventory(p))
              => \E q \in Sessions \ {p} :
                    /\ q \in row_lock[product_id[p]]
                    /\ product_id[q] = product_id[p]
        /\ pc[p] \in {"commit", "return", "raise"}
              => ENABLED (db_commit(p) \/ get_db_exit(p) \/ get_db_rollback(p))

\* Witness of C8: while one session holds the row lock of its product,
\* a session on another product has passed its SELECT
C8_Witness ==
    \E p, q \in Sessions :
        /\ product_id[p] # product_id[q]
        /\ pc[q] = "commit" /\ q \in row_lock[product_id[q]]
        /\ pc[p] = "commit"

\* The scheduling assumed for liveness: the event loop resumes every
\* handler whose awaited database call can complete, and a COMMIT, a ROLLBACK
\* and a granted lock request do complete.  Nothing obliges a user to start a
\* commit or the store to fail.  The quantity plays no part in the locking,
\* and every exit path of confirm_action occurs with the quantity 1, so the
\* commits of this specification all carry that quantity.
LiveNext ==
    \E p \in Sessions :
        \/ begin_commit(p, {1})
        \/ select_inventory(p)
        \/ db_commit(p)
        \/ get_db_exit(p)
        \/ StoreUnavailable(p)
        \/ get_db_rollback(p)

LiveSpec ==
    /\ Init /\ [][LiveNext]_vars
    /\ \A p \in Sessions :
          /\ WF_vars(select_inventory(p))
          /\ WF_vars(db_commit(p))
          /\ WF_vars(get_db_exit(p))
          /\ WF_vars(get_db_rollback(p))

\* Only a session that is between its SELECT and the end of its database
\* transaction, working on that product, holds a row lock
LockHeldOnlyInTransaction ==
    \A i \in Products : \A p \in row_lock[i] :
        pc[p] \in {"commit", "return", "raise"} /\ product_id[p] = i

\* C9: no session keeps a row lock after it has left confirm_action, on any
\* exit path, and every session that waits in its SELECT eventually gets
\* past it.
C9_LockReleased ==
    /\ []LockHeldOnlyInTransaction
    /\ \A p \in Sessions : (pc[p] = "select") ~> (pc[p] # "select")

\* Witness of C9: a session on a failure path (rejected CONSUME or raised
\* exception) still holds the lock another session is waiting for
C9_Witness ==
    \E p, q \in Sessions :
        /\ p # q
        /\ pc[p] \in {"return", "raise"}
        /\ p \in row_lock[product_id[p]]
        /\ pc[q] = "select" /\ product_id[q] = product_id[p]

AddOnLoadedRow ==
    /\ [](\A p \in Sessions :
             transaction_action[p] = "ADD"
                => pc[p] # "return" /\ outcome[p] \notin {"insufficient", "no_stock"})
    /\ [][\A p \in Sessions :
            (Commits(p) /\ transaction_action[p] = "ADD") =>
               LET pid  == product_id[p]
                   rows == inventory_products[pid]
                   x    == quantity_grams[p]
               IN  inventory_products'[pid] =
                      IF session_new[p] THEN Append(rows, x)
                      ELSE [rows EXCEPT ![1] = @ + x]]_vars

\* C11: an ADD with canonical amount x always succeeds (it is never rejected
\* and raises nothing of its own; only a failure of the store can stop it):
\* when the product has no inventory row at the commit the product gets the
\* one row <<x>>, and otherwise the commit increases the existing quantity
\* by exactly x and adds no row.
C11_AddAlwaysSucceeds ==
    /\ [](\A p \in Sessions :
             transaction_action[p] = "ADD"
                => /\ pc[p] # "return"
                   /\ outcome[p] \in {"none", "StoreUnavailable"})
    /\ [][\A p \in Sessions :
            (Commits(p) /\ transaction_action[p] = "ADD") =>
               LET pid  == product_id[p]
                   rows == inventory_products[pid]
                   x    == quantity_grams[p]
               IN  inventory_products'[pid] =
                      IF rows = <<>> THEN <<x>>
                      ELSE [rows EXCEPT ![1] = @ + x]]_vars

\* The SELECT of a CONSUME on a product that has no inventory row
ConsumeFindsNoRow(p) ==
    /\ pc[p] = "select"
    /\ transaction_action[p] = "CONSUME"
    /\ inventory_products[product_id[p]] = <<>>

\* C12: a CONSUME whose SELECT finds no inventory row is rejected (it never
\* reaches db.commit), and from the rejection to the close of its database
\* session it creates no inventory row, changes no quantity and writes no
\* transaction record.
C12_ConsumeWithoutStock ==
    [][\A p \in Sessions :
         /\ (ConsumeFindsNoRow(p) /\ pc'[p] # "select" /\ outcome'[p] # "StoreUnavailable")
               => (pc'[p] = "return" /\ outcome'[p] = "no_stock")
         /\ (pc[p] = "return" /\ outcome[p] = "no_stock" /\ pc'[p] # "return")
               => /\ inventory_products' = inventory_products
                  /\ transaction_logs' = transaction_logs]_vars

\* C15: the transaction log only grows by appends: every step leaves each
\* record that was in the log at its position with identical field values,
\* and none is removed.
C15_AppendOnly ==
    [][/\ Len(transaction_logs') >= Len(transaction_logs)
       /\ SubSeq(transaction_logs', 1, Len(transaction_logs)) = transaction_logs]_vars

\* Witness of C15: a second record has been appended behind a first one of
\* another kind
C15_Witness ==
    /\ Len(transaction_logs) = 2
    /\ transaction_logs[1] # transaction_logs[2]

\* ----------------------------------------------------------------------
\* Unit conversion (ConvertSpec)
\* ----------------------------------------------------------------------

\* The spellings a user types for each unit family
GramSpellings == {"g", "gram", "grams"}
MilliliterSpellings == {"ml", "milliliter", "milliliters"}
KilogramSpellings == {"kg", "kilogram", "kilograms", "KG"}
LiterSpellings == {"l", "liter", "liters"}
PieceSpellings == {"piece", "pieces", "pc", "pcs", "Pcs"}
PackageSpellings == {"box", "boxes", "pack", "packs"}
UnknownSpellings ==
    Units \ (GramSpellings \cup MilliliterSpellings \cup KilogramSpellings
             \cup LiterSpellings \cup PieceSpellings \cup PackageSpellings)

\* g is the number n/Den truncated to an integer
Truncated(g, n) == g * Den <= n /\ n < (g + 1) * Den

PieceUnitsTruncated ==
    (converted # <<>> /\ unit \in PieceSpellings /\ product_info.grammovka # 0) =>
       /\ Truncated(converted[1].quantity_grams, value * product_info.grammovka)
       /\ (value * product_info.grammovka) % Den = 0
             => converted[1].quantity_grams = round(value * product_info.grammovka, Den)
       /\ (value = 3 * Den /\ product_info.grammovka = 100)
             => converted[1].quantity_grams = 300

\* C18: for a piece spelling the canonical quantity is round(value x
\* grammovka) grams when the product has a grammovka, for whole and for
\* fractional values (3 pieces at 100 g give 300), and the value as a piece
\* count (its integer part, no weight factor) when it has none.
C18_PieceUnits ==
    (converted # <<>> /\ unit \in PieceSpellings) =>
       LET grams == converted[1].quantity_grams
       IN  /\ product_info.grammovka # 0
                => grams = round(value * product_info.grammovka, Den)
           /\ product_info.grammovka = 0
                => /\ Truncated(grams, value)
                   /\ converted[1].quantity_display.unit = " pieces"

\* The part of C19 that the code keeps: the arithmetic when the product has
\* a quantity_per_package
PackageUnitsWhenKnown ==
    (converted # <<>> /\ unit \in PackageSpellings
       /\ product_info.quantity_per_package # 0) =>
       LET total_pieces == (value * product_info.quantity_per_package) \div Den
       IN  converted[1].quantity_grams =
              IF product_info.grammovka # 0
              THEN total_pieces * product_info.grammovka
              ELSE total_pieces

\* C19: a conversion of a box or pack spelling has the product's
\* units_per_package: the pieces are value x units_per_package, and the
\* canonical quantity is pieces x grammovka grams when the product has a
\* grammovka and the pieces otherwise.
C19_PackageUnits ==
    (converted # <<>> /\ unit \in PackageSpellings) =>
       LET grams == converted[1].quantity_grams
           total_pieces == (value * product_info.quantity_per_package) \div Den
       IN  /\ product_info.quantity_per_package # 0
           /\ grams = IF product_info.grammovka # 0
                      THEN total_pieces * product_info.grammovka
                      ELSE total_pieces

ItemRecords(i) ==
    {n \in 1..Len(transaction_logs) : transaction_logs[n].product_id = i}

\* The stock level of product i once the first n records of the log have
\* been applied, one after the other, to the seeded table
RECURSIVE StockAfter(_, _)
StockAfter(i, n) ==
    IF n = 0
    THEN IF i \in SeededProducts THEN [found |-> TRUE, quantity |-> 0] ELSE None
    ELSE LET rec == transaction_logs[n]
         IN  IF rec.product_id = i
             THEN apply_action(rec.action_type, StockAfter(i, n - 1),
                               rec.quantity_grams).inventory
             ELSE StockAfter(i, n - 1)

C14_CancelTouchesNothing ==
    [][ (\E kb \in BagToSet(keyboards) : cancel_inventory_action(kb))
        => /\ UNCHANGED <<inventory_products, transaction_logs>>
           /\ pc' = pc
           /\ started' = started ]_vars

\* A quantity was typed and parsed, the confirmation prompt was cancelled:
\* every conversation has ended and no confirm_action has ever run
C14_Witness ==
    /\ user_data.quantity_unit # "unset"
    /\ \A f \in FlowNames : conv_state[f] = "END"
    /\ keyboards = EmptyBag
    /\ started = 0
    /\ transaction_logs = <<>>
    /\ inventory_products = [i \in Products |->
                               IF i \in SeededProducts THEN <<0>> ELSE <<>>]

\* ----------------------------------------------------------------------
\* The units of the display label that stand for a canonical storage unit
CanonicalUnits == {"g", " pieces"}

\* The record was applied to the stock when it was written
AppliedToStock(rec) == rec.action_type \in {"ADD", "CORRECTION"}

\* C16: for each item, every quantity applied to its stock by a committed
\* operation is expressed in that item's single canonical storage unit (grams
\* or pieces), whatever unit the actor typed.  The quantities the committed
\* ADD and CORRECTION records of one product applied all carry one unit, and
\* it is grams or pieces.
C16_SingleCanonicalUnit ==
    \A j, n \in 1..Len(transaction_logs) :
        LET a == transaction_logs[j]
            b == transaction_logs[n]
        IN  ( AppliedToStock(a) /\ AppliedToStock(b) /\ a.product_id = b.product_id )
            => /\ a.quantity_display.unit \in CanonicalUnits
               /\ a.quantity_display.unit = b.quantity_display.unit

\* ----------------------------------------------------------------------
\* The SELECT of a CONSUME of session p returns the product's inventory row
\* in this step
ConsumeLoadsRow(p) ==
    /\ pc[p] = "select"
    /\ transaction_action[p] = "CONSUME"
    /\ Len(inventory_products[product_id[p]]) = 1
    /\ pc'[p] # "select"
    /\ outcome'[p] # "StoreUnavailable"

\* C24: a CONSUME commit on an existing StockLevel succeeds if and only if
\* the current quantity is >= the canonical amount, and on success the
\* quantity decreases by exactly the canonical amount.  A CONSUME whose SELECT
\* returns the row goes on to db.commit() exactly when the row holds at least
\* quantity_grams and is rejected as insufficient otherwise; its commit
\* writes the committed quantity less quantity_grams.
C24_ConsumeIffEnough ==
    /\ [][\A p \in Sessions :
            ConsumeLoadsRow(p) =>
               LET q == inventory_products[product_id[p]][1]
               IN  /\ (pc'[p] = "commit") <=> (q >= quantity_grams[p])
                   /\ pc'[p] # "commit"
                        => pc'[p] = "return" /\ outcome'[p] = "insufficient"]_vars
    /\ [][\A p \in Sessions :
            (Commits(p) /\ transaction_action[p] = "CONSUME") =>
               inventory_products'[product_id[p]] =
                  [inventory_products[product_id[p]] EXCEPT
                      ![1] = @ - quantity_grams[p]]]_vars

\* Witness of C24: a CONSUME of exactly the whole, positive stock is about to
\* commit the quantity 0
C24_Witness ==
    \E p \in Sessions :
        /\ pc[p] = "commit"
        /\ transaction_action[p] = "CONSUME"
        /\ Loaded(p)
        /\ inventory_products[product_id[p]] = <<quantity_grams[p]>>
        /\ quantity_grams[p] > 0
        /\ inventory[p].quantity = 0

\* ----------------------------------------------------------------------
\* The texts that parse to a number <= 0
NonPositiveTexts ==
    {text \in Texts : ~parse_quantity_input(text).is_none
                      /\ parse_quantity_input(text).value <= 0}

\* C21: a parsed quantity value <= 0 is rejected before conversion: the
\* conversation stays in the quantity-entry state, no quantity is stored for
\* a later commit and no ledger state changes, so no committed record has an
\* original quantity <= 0.  No text with a value <= 0 changes anything when
\* quantity_entered handles it, the quantity held for the commit is positive
\* whenever there is one, and so is the one every confirm_action starts with.
C21_NonPositiveRejected ==
    /\ \A text \in NonPositiveTexts :
          ~ENABLED (quantity_entered(text) /\ vars' # vars)
    /\ user_data.quantity_unit # "unset" => user_data.quantity_original > 0
    /\ pc[1] # "idle" => user_data.quantity_original > 0

\* Witness of C21: a conversation waits for the quantity, so that
\* quantity_entered handles a text with a value <= 0 next
C21_Witness ==
    /\ \E f \in FlowNames : conv_state[f] = "ENTER_QUANTITY"
    /\ \A text \in NonPositiveTexts : ENABLED quantity_entered(text)
    /\ NonPositiveTexts # {}
    /\ user_data.quantity_unit = "unset"

\* ----------------------------------------------------------------------
\* C28: the operation kind, product and canonical quantity committed by
\* confirm_action are exactly those shown in the confirmation prompt whose
\* Confirm button was pressed, even when the same user has a second add,
\* consume or correction flow in progress.  Every press of Confirm on a
\* prompt starts the transaction the prompt names.
C28_CommitsWhatWasShown ==
    [][ \A kb \in BagToSet(keyboards) :
          inv_confirm(kb, FALSE) =>
             /\ transaction_action'[1] = action_type_map(kb.action)
             /\ product_id'[1] = kb.product
             /\ quantity_grams'[1] = kb.grams ]_vars

\* ----------------------------------------------------------------------
\* C29: every committed transaction record has a strictly positive canonical
\* quantity: no positive input converts to canonical quantity 0 and is then
\* committed.
C29_PositiveCanonical ==
    \A n \in 1..Len(transaction_logs) : transaction_logs[n].quantity_grams > 0

\* ----------------------------------------------------------------- C30
\* The user of FlowSpec, who may press a Confirm button twice in a row
TapNext ==
    \/ add_inventory_start
    \/ consume_inventory_start
    \/ correction_start
    \/ \E kb \in BagToSet(keyboards), c \in Categories :
          category_selected(kb, kb.action, c)
    \/ \E kb \in BagToSet(keyboards), i \in Products : product_selected(kb, i)
    \/ \E text \in Texts : quantity_entered(text)
    \/ \E kb \in BagToSet(keyboards), again \in BOOLEAN : inv_confirm(kb, again)
    \/ second_confirm
    \/ \E kb \in BagToSet(keyboards) : cancel_inventory_action(kb)
    \/ cancel_command
    \/ select_inventory(1)
    \/ db_commit(1)
    \/ get_db_exit(1)
    \/ StoreUnavailable(1)
    \/ get_db_rollback(1)

TapSpec == FlowInit /\ [][TapNext]_vars

\* C30: the second press of the Confirm button of a prompt commits nothing:
\* the step that handles the second callback query starts no transaction,
\* so one prompt yields at most one stock change and one record.
C30_SecondPressCommitsNothing ==
    [][(second_tap # <<>> /\ second_tap' = <<>>)
          => (pc' = pc /\ started' = started /\ conv_state' = conv_state)]_vars

\* ----------------------------------------------------------------- C22
\* The user of FlowSpec with a client that answers a category keyboard with
\* callback data of its choice: the Bot API delivers the data of a callback
\* query as the client sent it, whether or not the message has a button with
\* that data
CallbackNext ==
    \/ add_inventory_start
    \/ consume_inventory_start
    \/ correction_start
    \/ \E kb \in BagToSet(keyboards), action \in ActionNames, c \in Categories :
          category_selected(kb, action, c)
    \/ \E kb \in BagToSet(keyboards), i \in Products : product_selected(kb, i)
    \/ \E text \in Texts : quantity_entered(text)
    \/ \E kb \in BagToSet(keyboards) : inv_confirm(kb, FALSE)
    \/ \E kb \in BagToSet(keyboards) : cancel_inventory_action(kb)
    \/ cancel_command
    \/ select_inventory(1)
    \/ db_commit(1)
    \/ get_db_exit(1)
    \/ StoreUnavailable(1)
    \/ get_db_rollback(1)

CallbackSpec == FlowInit /\ [][CallbackNext]_vars

\* C22: every committed CORRECTION record has its admin flag set: no
\* sequence of commands and callbacks of a user without the admin privilege
\* commits a CORRECTION.
C22_CorrectionOnlyByAdmin ==
    \A n \in 1..Len(transaction_logs) :
        transaction_logs[n].action_type = "CORRECTION"
            => transaction_logs[n].admin_flag

\* ----------------------------------------------------------------- C23
\* An edit of a products row gives the product another name.  No handler of
\* the repository edits the catalog; the row is edited in the database, at
\* any moment, also while a conversation or a session is under way.
edit_product(i) ==
    /\ products[i] = seeded_name
    /\ products' = [products EXCEPT ![i] = edited_name]
    /\ UNCHANGED ledger
    /\ UNCHANGED <<conversion, conversation>>

\* The user of FlowSpec while the catalog is edited
CatalogNext ==
    \/ add_inventory_start
    \/ consume_inventory_start
    \/ correction_start
    \/ \E kb \in BagToSet(keyboards), c \in Categories :
          category_selected(kb, kb.action, c)
    \/ \E kb \in BagToSet(keyboards), i \in Products : product_selected(kb, i)
    \/ \E text \in Texts : quantity_entered(text)
    \/ \E kb \in BagToSet(keyboards) : inv_confirm(kb, FALSE)
    \/ \E kb \in BagToSet(keyboards) : cancel_inventory_action(kb)
    \/ cancel_command
    \/ select_inventory(1)
    \/ db_commit(1)
    \/ get_db_exit(1)
    \/ StoreUnavailable(1)
    \/ get_db_rollback(1)
    \/ \E i \in Products : edit_product(i)

CatalogSpec == FlowInit /\ [][CatalogNext]_vars

\* C23: the record that confirm_action builds and writes carries the name
\* its product has in the catalog when the handler runs, and no later step,
\* an edit of the product included, changes a record that has been written.
C23_NameAtWriteTime ==
    /\ [][(pc[1] = "idle" /\ pc'[1] = "select")
            => product_name'[1] = products[product_id'[1]]]_vars
    /\ [][\A n \in 1..Len(transaction_logs) :
             /\ n <= Len(transaction_logs')
             /\ transaction_logs'[n] = transaction_logs[n]]_vars

\* ----------------------------------------------------------------- C26
\* staff_auth.handle_staff_selection_callback, lines 196-230, for a press of
\* the button of `name` on a staff keyboard.  main() adds the handler after
\* the conversations (bot/main.py, line 478), none of which matches
\* staff_select: in any state.
handle_staff_selection_callback(kb, name) ==
    /\ handler_idle
    /\ kb.kind = "staff" /\ BagIn(kb, keyboards)
    /\ user_data' = [user_data EXCEPT !.selected_staff_name = name]
    /\ keyboards' = remove(keyboards, kb)
    /\ UNCHANGED <<conv_state, user_info, flows_started>>
    /\ UNCHANGED ledger
    /\ UNCHANGED <<conversion, products, second_tap>>

\* The shared account of Mode B talking to the three conversations
SharedInit ==
    /\ ledger_init /\ conversion_none /\ conversation_none
    /\ user_info = shared

SharedNext ==
    \/ add_inventory_start
    \/ consume_inventory_start
    \/ correction_start
    \/ \E kb \in BagToSet(keyboards), name \in STAFF_NAMES :
          handle_staff_selection_callback(kb, name)
    \/ \E kb \in BagToSet(keyboards), c \in Categories :
          category_selected(kb, kb.action, c)
    \/ \E kb \in BagToSet(keyboards), i \in Products : product_selected(kb, i)
    \/ \E text \in Texts : quantity_entered(text)
    \/ \E kb \in BagToSet(keyboards) : inv_confirm(kb, FALSE)
    \/ \E kb \in BagToSet(keyboards) : cancel_inventory_action(kb)
    \/ cancel_command
    \/ select_inventory(1)
    \/ db_commit(1)
    \/ get_db_exit(1)
    \/ StoreUnavailable(1)
    \/ get_db_rollback(1)

SharedSpec == SharedInit /\ [][SharedNext]_vars

\* A flow of the user ends with this step: confirm_action returns, or a
\* handler that opens no session returns END to a running conversation
FlowEnds ==
    \/ pc[1] # "idle" /\ pc'[1] = "idle"
    \/ /\ pc[1] = "idle" /\ pc'[1] = "idle"
       /\ \E f \in FlowNames : conv_state[f] # "END" /\ conv_state'[f] = "END"

\* C26: on the shared account no staff name is selected any more once a
\* flow has ended, however it ended.
C26_StaffClearedAtFlowEnd ==
    [][FlowEnds => user_data'.selected_staff_name = "unset"]_vars

\* ----------------------------------------------------------------- C27
\* The application as main() assembles it (bot/main.py, lines 454-478): all
\* handlers are in one group, so an update goes to the first handler, in the
\* order of the add_handler calls, whose check accepts it.  The data of a
\* callback query is held as <<prefix, rest...>>.
menu_pattern == {"menu_", "inv_", "sale_", "report_", "admin_", "help_"}

Submenus == {"inventory", "sales", "reports", "admin", "help"}

\* The action buttons of the submenus (show_*_submenu, lines 86-210)
submenu_items(m) ==
    CASE m = "inventory" -> {<<"inv_", "view_stock">>, <<"inv_", "add">>,
                             <<"inv_", "consume">>, <<"inv_", "correction">>,
                             <<"inv_", "history">>}
      [] m = "sales"     -> {<<"sale_", "quick">>, <<"sale_", "report">>}
      [] m = "reports"   -> {<<"report_", "day">>, <<"report_", "week">>,
                             <<"report_", "month">>}
      [] m = "admin"     -> {<<"admin_", "users">>, <<"admin_", "sync_square">>,
                             <<"admin_", "sync_sheets">>, <<"admin_", "sync_all">>}
      [] m = "help"      -> {<<"help_", "guide">>, <<"help_", "status">>,
                             <<"help_", "profile">>}

\* The callback data of the buttons of a keyboard
buttons(kb) ==
    CASE kb.kind = "menu" /\ kb.action = "main" ->
             {<<"menu_", m>> : m \in Submenus} \cup {<<"menu_", "production">>}
      [] kb.kind = "menu" /\ kb.action # "main" ->
             submenu_items(kb.action) \cup {<<"menu_", "main">>}
      [] kb.kind = "category" ->
             {<<"inv_", kb.action, "cat", c>> : c \in Categories}
             \cup {<<"inv_", "cancel">>}
      [] kb.kind = "product" ->
             {<<"inv_", kb.action, "prod", i>> : i \in Products}
             \cup {<<"inv_", "cancel">>}
      [] kb.kind = "confirm" -> {<<"inv_", "confirm">>, <<"inv_", "cancel">>}
      [] kb.kind = "staff" -> {<<"staff_select:", name>> : name \in STAFF_NAMES}

\* The menu messages of the chat
menus_shown ==
    BagCardinality([kb \in {k \in BagToSet(keyboards) : k.kind = "menu"}
                       |-> keyboards[kb]])

\* /start: show_main_menu sends a new message with the main menu
start ==
    /\ handler_idle
    /\ menus_shown < MaxMenus
    /\ keyboards' = show(keyboards, Keyboard("menu", "main"))
    /\ UNCHANGED <<conv_state, user_data, user_info, flows_started>>
    /\ UNCHANGED ledger
    /\ UNCHANGED <<conversion, products, second_tap>>

\* handle_menu_callback, lines 213-284, the first CallbackQueryHandler of the
\* application (line 460), for a press of the button with `data` on keyboard
\* kb: it takes every callback query whose data starts with a prefix of
\* menu_pattern, answers it, and edits the message when the data is one of
\* its branches; the data of a category, product, Confirm or Cancel button
\* is none of them.
handle_menu_callback(kb, data) ==
    /\ handler_idle
    /\ BagIn(kb, keyboards)
    /\ data \in buttons(kb)
    /\ data[1] \in menu_pattern
    /\ keyboards' =
          CASE data = <<"menu_", "main">> ->
                   show(remove(keyboards, kb), Keyboard("menu", "main"))
            [] data[1] = "menu_" /\ data[2] \in Submenus ->
                   show(remove(keyboards, kb), Keyboard("menu", data[2]))
            [] data = <<"menu_", "production">>
               \/ \E m \in Submenus : data \in submenu_items(m) ->
                   remove(keyboards, kb)
            [] OTHER -> keyboards
    /\ UNCHANGED <<conv_state, user_data, user_info, flows_started>>
    /\ UNCHANGED ledger
    /\ UNCHANGED <<conversion, products, second_tap>>

\* A callback query with `data` reaches the ConversationHandlers (added at
\* lines 469-471) when no handler added before them has taken it
reaches_conversations(data) == data[1] \notin menu_pattern

\* The press of a category button as the application dispatches it
app_category_selected(kb, action, c) ==
    /\ <<"inv_", action, "cat", c>> \in buttons(kb)
    /\ reaches_conversations(<<"inv_", action, "cat", c>>)
    /\ category_selected(kb, action, c)

\* One user, an admin or not, talking to the application: messages are
\* dispatched as above, so the typed quantity and the callbacks of the
\* conversations are left out, for no conversation gets to wait for them
AppNext ==
    \/ start
    \/ add_inventory_start
    \/ consume_inventory_start
    \/ correction_start
    \/ \E kb \in BagToSet(keyboards) : \E data \in buttons(kb) :
          handle_menu_callback(kb, data)
    \/ cancel_command

AppSpec == FlowInit /\ [][AppNext]_vars

\* C27: while a conversation waits in SELECT_CATEGORY and the chat shows its
\* category keyboard, a press of a category button is handled by
\* category_selected and moves the conversation on.
C27_ButtonsReachConversation ==
    \A kb \in BagToSet(keyboards) :
        (kb.kind = "category" /\ handler_idle
           /\ receiver({"SELECT_CATEGORY"}) # "none")
        => ENABLED (\E c \in Categories : app_category_selected(kb, kb.action, c))

\* ----------------------------------------------------------------- C25
\* The other two writers of inventory_products.quantity, each running in a
\* database session of its own next to the confirm_action calls.

\* sale_command, bot/handlers/commands.py lines 195-222: /sale <SKU> <quantity>
\* with a quantity > 0
sale_command(p, pid, quantity) ==
    /\ pc[p] = "idle"
    /\ started < MaxOperations
    /\ product_id' = [product_id EXCEPT ![p] = pid]
    /\ quantity_grams' = [quantity_grams EXCEPT ![p] = quantity]
    /\ pc' = [pc EXCEPT ![p] = "sale_select"]
    /\ started' = started + 1
    /\ UNCHANGED <<inventory_products, transaction_logs, row_lock,
                   transaction_action, quantity_display, product_name,
                   session_objects, outcome>>
    /\ UNCHANGED <<conversion, conversation, products>>

\* sale_command, lines 224-272: select(Product) with joinedload(inventory)
\* and with_for_update() is one SELECT over products LEFT OUTER JOIN
\* inventory_products ... FOR UPDATE.  What the database makes of it is not
\* in the repository: PostgreSQL rejects FOR UPDATE on the nullable side of
\* an outer join, and a server that accepts the statement locks the rows of
\* both tables.  Both outcomes are kept.  With the rows locked the handler
\* reads product.inventory, rejects a request above the stock and otherwise
\* subtracts; the `return` of the rejection commits a session without changes.
sale_select(p) ==
    LET pid  == product_id[p]
        rows == inventory_products[pid]
    IN  /\ pc[p] = "sale_select"
        /\ \/ /\ pc' = [pc EXCEPT ![p] = "raise"]
              /\ outcome' = [outcome EXCEPT ![p] = "NotSupportedError"]
              /\ UNCHANGED <<row_lock, inventory, session_new>>
           \/ /\ with_for_update(p, pid)
              /\ row_lock' = IF rows = <<>> THEN row_lock
                             ELSE [row_lock EXCEPT ![pid] = @ \cup {p}]
              /\ IF Len(rows) # 1
                 THEN \* inv is None (AttributeError), or MultipleResultsFound
                      /\ pc' = [pc EXCEPT ![p] = "raise"]
                      /\ outcome' = [outcome EXCEPT ![p] =
                                        IF rows = <<>> THEN "AttributeError"
                                        ELSE "MultipleResultsFound"]
                      /\ UNCHANGED <<inventory, session_new>>
                 ELSE /\ pc' = [pc EXCEPT ![p] = "sale_commit"]
                      /\ IF rows[1] < quantity_grams[p]
                         THEN /\ inventory' = [inventory EXCEPT ![p] =
                                     [found |-> TRUE, quantity |-> rows[1]]]
                              /\ outcome' = [outcome EXCEPT ![p] = "insufficient"]
                         ELSE /\ inventory' = [inventory EXCEPT ![p] =
                                     [found |-> TRUE,
                                      quantity |-> rows[1] - quantity_grams[p]]]
                              /\ UNCHANGED outcome
                      /\ UNCHANGED session_new
        /\ UNCHANGED <<inventory_products, transaction_logs, locals, started,
                       conversion, conversation, products>>

\* sale_command, line 274 (and get_db after the `return` of line 248): the
\* commit writes the quantity of the loaded row; a sale writes no
\* TransactionLog
sale_commit(p) ==
    LET pid == product_id[p]
    IN  /\ pc[p] = "sale_commit"
        /\ inventory_products' =
              [inventory_products EXCEPT
                 ![pid] = flush_inventory(@, inventory[p], FALSE)]
        /\ row_lock' = release(p)
        /\ handler_returns(p)
        /\ UNCHANGED <<transaction_logs, started, conversion, conversation,
                       products>>

\* max(0, x)
max0(x) == IF x > 0 THEN x ELSE 0

\* SquareIntegration.sync_sales_from_square, integrations/square_api.py lines
\* 149-186, for one line item of an order that is not imported yet: its
\* product and its quantity
sync_sales_from_square(p, pid, quantity) ==
    /\ pc[p] = "idle"
    /\ started < MaxOperations
    /\ product_id' = [product_id EXCEPT ![p] = pid]
    /\ quantity_grams' = [quantity_grams EXCEPT ![p] = quantity]
    /\ pc' = [pc EXCEPT ![p] = "sync_select"]
    /\ started' = started + 1
    /\ UNCHANGED <<inventory_products, transaction_logs, row_lock,
                   transaction_action, quantity_display, product_name,
                   session_objects, outcome>>
    /\ UNCHANGED <<conversion, conversation, products>>

\* sync_sales_from_square, lines 188-196: a plain SELECT of the inventory
\* row, which waits for no lock and takes none, scalar_one_or_none(), and
\* inventory.quantity = max(0, inventory.quantity - quantity).  The session
\* has an UPDATE to flush only when the attribute got another value.
sync_select(p) ==
    LET pid  == product_id[p]
        rows == inventory_products[pid]
    IN  /\ pc[p] = "sync_select"
        /\ select_unlocked(p, pid)
        /\ IF Len(rows) > 1
           THEN /\ pc' = [pc EXCEPT ![p] = "raise"]
                /\ outcome' = [outcome EXCEPT ![p] = "MultipleResultsFound"]
                /\ UNCHANGED inventory
           ELSE /\ pc' = [pc EXCEPT ![p] = "sync_commit"]
                /\ inventory' = [inventory EXCEPT ![p] =
                      IF rows = <<>> \/ max0(rows[1] - quantity_grams[p]) = rows[1]
                      THEN None
                      ELSE [found |-> TRUE,
                            quantity |-> max0(rows[1] - quantity_grams[p])]]
                /\ UNCHANGED outcome
        /\ UNCHANGED <<inventory_products, transaction_logs, row_lock, locals,
                       session_new, started, conversion, conversation, products>>

\* sync_sales_from_square, line 200: db.commit() flushes the UPDATE, which
\* sets the quantity to the value computed from the row as it was read; the
\* UPDATE waits while another transaction holds the lock of the row.
sync_commit(p) ==
    LET pid == product_id[p]
    IN  /\ pc[p] = "sync_commit"
        /\ inventory[p].found => row_lock[pid] \subseteq {p}
        /\ inventory_products' =
              IF inventory[p].found
              THEN [inventory_products EXCEPT
                      ![pid] = flush_inventory(@, inventory[p], FALSE)]
              ELSE inventory_products
        /\ row_lock' = release(p)
        /\ handler_returns(p)
        /\ UNCHANGED <<transaction_logs, started, conversion, conversation,
                       products>>

\* Ledger commits, sales and imports of sales, each in a session of its own
SaleNext ==
    \E p \in Sessions :
        \/ confirm_action(p)
        \/ select_inventory(p)
        \/ db_commit(p)
        \/ get_db_exit(p)
        \/ get_db_rollback(p)
        \/ \E pid \in Products, quantity \in 1..MaxGrams :
              sale_command(p, pid, quantity)
        \/ sale_select(p)
        \/ sale_commit(p)
        \/ \E pid \in Products, quantity \in 1..MaxGrams :
              sync_sales_from_square(p, pid, quantity)
        \/ sync_select(p)
        \/ sync_commit(p)

SaleSpec == Init /\ [][SaleNext]_vars

\* Session p holds a changed quantity of an existing row that its commit
\* will write
Writes(p) ==
    /\ pc[p] \in {"commit", "sale_commit", "sync_commit"}
    /\ inventory[p].found
    /\ ~session_new[p]
    /\ outcome[p] = "none"

\* The quantity the operation of session p yields from the quantity q
Result(p, q) ==
    CASE pc[p] = "commit" ->
             apply_action(transaction_action[p], [found |-> TRUE, quantity |-> q],
                          quantity_grams[p]).inventory.quantity
      [] pc[p] = "sale_commit" -> q - quantity_grams[p]
      [] pc[p] = "sync_commit" -> max0(q - quantity_grams[p])

====
